---------------------------- MODULE Spec2Model ----------------------------
(***************************************************************************)
(* A model of the architecture visualizer: ArchitectureAnalyzer            *)
(* (repo_viz.py) and the `analyze` subcommand (viz-cli.py).                *)
(*                                                                         *)
(* Strings the program inspects character by character (file stems,        *)
(* imported module names) are sequences of one-character strings, so that  *)
(* str.lower, the `in` substring test, str.split('.') and re.sub(r'\W+')   *)
(* are computed as the code computes them.                                  *)
(***************************************************************************)
EXTENDS Integers, Sequences, FiniteSets, TLC

VARIABLES
    fs,                 \* the *.py files present under repo_path (a set of file ids)
    components,         \* self.components: stem -> Component
    analyzeRan,         \* analyze has been invoked on this analyzer
    analyzeCompleted,   \* an analyze invocation on this analyzer has returned
    genAnalyzeCalls,    \* number of analyze invocations made by generate_mermaid
    lastOp,             \* what the latest operation did (history)
    docker_client,      \* self.docker_client is a client (FALSE: it is None)
    dockerfile,         \* repo_path / 'Dockerfile' exists
    images,             \* ids of the images the container engine holds
    nextImage,          \* the id the next successful build gets
    lastDocker          \* what the latest analyze_docker call did (history)

vars == <<fs, components, analyzeRan, analyzeCompleted, genAnalyzeCalls, lastOp,
          docker_client, dockerfile, images, nextImage, lastDocker>>

analyzerVars == <<fs, components, analyzeRan, analyzeCompleted, genAnalyzeCalls, lastOp>>
dockerVars == <<docker_client, dockerfile, images, nextImage, lastDocker>>

---------------------------------------------------------------------------
(* Bounds *)

\* most files present under repo_path at one time
MaxPresent == 2
\* most analyze invocations generate_mermaid makes on one analyzer
MaxGenCalls == 2
\* most history entries of a built image
MaxLayers == 3
\* most images built during one behaviour
MaxImages == 3

---------------------------------------------------------------------------
(* Strings *)

UpperCase == <<"A","B","C","D","E","F","G","H","I","J","K","L","M",
               "N","O","P","Q","R","S","T","U","V","W","X","Y","Z">>
LowerCase == <<"a","b","c","d","e","f","g","h","i","j","k","l","m",
               "n","o","p","q","r","s","t","u","v","w","x","y","z">>
Digits == {"0","1","2","3","4","5","6","7","8","9"}

Range(s) == {s[i] : i \in DOMAIN s}

\* str.lower on one character
LowerCh(c) ==
    IF \E i \in DOMAIN UpperCase : UpperCase[i] = c
    THEN LowerCase[CHOOSE i \in DOMAIN UpperCase : UpperCase[i] = c]
    ELSE c

\* str.lower
Lower(s) == [i \in DOMAIN s |-> LowerCh(s[i])]

\* `sub in s` on strings
Contains(sub, s) ==
    \E i \in 1..(Len(s) - Len(sub) + 1) : SubSeq(s, i, i + Len(sub) - 1) = sub

\* \w of the re module
IsWordCh(c) == c \in Range(UpperCase) \cup Range(LowerCase) \cup Digits \cup {"_"}

\* re.sub(r'\W+', '_', name): every maximal run of non-word characters
\* becomes one underscore
RECURSIVE SubNonWord(_, _)
SubNonWord(s, i) ==
    IF i > Len(s) THEN <<>>
    ELSE IF IsWordCh(s[i]) THEN <<s[i]>> \o SubNonWord(s, i + 1)
    ELSE IF i > 1 /\ ~IsWordCh(s[i - 1]) THEN SubNonWord(s, i + 1)
    ELSE <<"_">> \o SubNonWord(s, i + 1)

NodeId(name) == SubNonWord(name, 1)

\* s.split('.')[0]
RECURSIVE SplitDotFirst(_, _)
SplitDotFirst(s, i) ==
    IF i > Len(s) \/ s[i] = "." THEN <<>>
    ELSE <<s[i]>> \o SplitDotFirst(s, i + 1)

TopLevel(s) == SplitDotFirst(s, 1)

\* the literals of the source
s_test == <<"t","e","s","t">>
s_model == <<"m","o","d","e","l">>
s_client == <<"c","l","i","e","n","t">>
s_api == <<"a","p","i">>
s_core == <<"c","o","r","e">>
s_type == <<"t","y","p","e">>
s_base == <<"b","a","s","e">>


---------------------------------------------------------------------------
(* The files a repository may hold.  A file never changes: its stem, its   *)
(* imports and what each analyzer returns or raises on it are fixed, so a  *)
(* per-file analyzer gives the same result for the same file.              *)

\* node.module of `from . import x`
None == <<>>

Imp(kind, module) == [kind |-> kind, module |-> module]

m_os_path == <<"o","s",".","p","a","t","h">>
m_os == <<"o","s">>
m_requests == <<"r","e","q","u","e","s","t","s">>
m_Core == <<"C","o","r","e">>
m_Core_util == <<"C","o","r","e",".","u","t","i","l">>
m_helpers == <<"h","e","l","p","e","r","s">>
m_api_client == <<"a","p","i","-","c","l","i","e","n","t">>
m_Test_api == <<"T","e","s","t","_","a","p","i">>
m_base_v2 == <<"b","a","s","e",".","v","2">>
m_types == <<"t","y","p","e","s">>
m_model_a == <<"m","o","d","e","l","_","a">>
m_client == <<"c","l","i","e","n","t">>
m_setup == <<"s","e","t","u","p">>
m_views == <<"v","i","e","w","s">>

\* framework: the lower-cased content holds "fastapi", "flask" or "django";
\* complexity: what cc_visit sums to; fail: the per-file step of analyze
\* that raises on this file ("none": no step does)
FileTable == <<
    [path |-> "src/api-client.py", stem |-> m_api_client, framework |-> TRUE,
     imports |-> {Imp("import", m_os_path), Imp("from", m_Core_util),
                  Imp("import", m_helpers)},
     complexity |-> 21, fail |-> "none"],
    [path |-> "src/Core.py", stem |-> m_Core, framework |-> FALSE,
     imports |-> {Imp("from", None), Imp("import", m_requests)},
     complexity |-> 51, fail |-> "none"],
    [path |-> "src/helpers.py", stem |-> m_helpers, framework |-> FALSE,
     imports |-> {Imp("import", m_Core), Imp("import", m_os)},
     complexity |-> 7, fail |-> "none"],
    [path |-> "lib/helpers.py", stem |-> m_helpers, framework |-> TRUE,
     imports |-> {Imp("import", m_os_path)},
     complexity |-> 9, fail |-> "none"],
    [path |-> "src/Test_api.py", stem |-> m_Test_api, framework |-> FALSE,
     imports |-> {Imp("import", m_Core)},
     complexity |-> 3, fail |-> "deps"],
    [path |-> "src/base.v2.py", stem |-> m_base_v2, framework |-> FALSE,
     imports |-> {Imp("from", m_Core_util)},
     complexity |-> 20, fail |-> "none"],
    [path |-> "src/types.py", stem |-> m_types, framework |-> FALSE,
     imports |-> {}, complexity |-> 50, fail |-> "none"],
    [path |-> "src/model_a.py", stem |-> m_model_a, framework |-> FALSE,
     imports |-> {Imp("import", m_os)}, complexity |-> 4, fail |-> "security"],
    [path |-> "src/client.py", stem |-> m_client, framework |-> FALSE,
     imports |-> {}, complexity |-> 0, fail |-> "detect"],
    [path |-> "src/setup.py", stem |-> m_setup, framework |-> FALSE,
     imports |-> {Imp("import", m_os)}, complexity |-> 2, fail |-> "performance"],
    [path |-> "src/views.py", stem |-> m_views, framework |-> TRUE,
     imports |-> {}, complexity |-> 0, fail |-> "deps"]
>>

Files == DOMAIN FileTable

Stem(f) == FileTable[f].stem

\* the orders in which rglob("*.py") may yield the files of a directory
Orders(S) ==
    {o \in [1..Cardinality(S) -> S] : \A i, j \in DOMAIN o : i # j => o[i] # o[j]}

---------------------------------------------------------------------------
(* The per-file analyzers *)

\* `"test" in file.stem.lower()`, the skip of the analyze loop
IsTestFile(f) == Contains(s_test, Lower(Stem(f)))

_detect_component_type(f) ==
    IF Contains(s_test, Lower(Stem(f))) THEN "test"
    ELSE IF FileTable[f].framework THEN "api"
    ELSE IF Contains(s_model, Lower(Stem(f))) THEN "model"
    ELSE "module"

_extract_dependencies(f) ==
    UNION {IF i.kind = "import" \/ i.module # None THEN {TopLevel(i.module)} ELSE {} :
              i \in FileTable[f].imports}

analyze_performance(f) == [complexity |-> FileTable[f].complexity]

\* the per-file steps of analyze, in the order the loop body runs them
Steps == <<"detect", "deps", "performance", "security">>

StepIndex(step) == CHOOSE i \in DOMAIN Steps : Steps[i] = step

\* the analyzer calls the loop body makes on f: all four, or those up to and
\* including the one that raises
FileCalls(f) ==
    LET n == IF FileTable[f].fail = "none" THEN Len(Steps)
             ELSE StepIndex(FileTable[f].fail)
    IN  [i \in 1..n |-> <<f, Steps[i]>>]

\* Component(name=file.stem, type=..., path=file, dependencies=...) with
\* performance set afterwards
NewComponent(f) ==
    [name |-> Stem(f),
     type |-> _detect_component_type(f),
     path |-> f,
     dependencies |-> _extract_dependencies(f),
     performance |-> analyze_performance(f)]

\* NewComponent and IsTestFile tabulated over the files, computed once
RECURSIVE ComponentsUpTo(_)
ComponentsUpTo(n) ==
    IF n = 0 THEN <<>> ELSE Append(ComponentsUpTo(n - 1), NewComponent(n))

ComponentTable == ComponentsUpTo(Len(FileTable))

TestFiles == UNION {IF IsTestFile(f) THEN {f} ELSE {} : f \in Files}

\* self.components = {}
NoComponents == [k \in {} |-> {}]

\* the variant that skips a file on an exception and goes on
RECURSIVE AnalyzeLoop_skip_on_exception(_, _, _, _)
AnalyzeLoop_skip_on_exception(order, i, comps, log) ==
    IF i > Len(order)
    THEN [components |-> comps, raised |-> FALSE, log |-> log]
    ELSE IF order[i] \in TestFiles
    THEN AnalyzeLoop_skip_on_exception(order, i + 1, comps, log)
    ELSE IF FileTable[order[i]].fail # "none"
    THEN AnalyzeLoop_skip_on_exception(order, i + 1, comps,
                                       log \o FileCalls(order[i]))
    ELSE AnalyzeLoop_skip_on_exception(order, i + 1,
             (Stem(order[i]) :> ComponentTable[order[i]]) @@ comps,
             log \o FileCalls(order[i]) \o << <<order[i], "store">> >>)

\* the loop of analyze from position i of the rglob order: the component map
\* it leaves, whether an exception left it, and the calls it made
RECURSIVE AnalyzeLoop(_, _, _, _)
AnalyzeLoop(order, i, comps, log) ==
    IF i > Len(order)
    THEN [components |-> comps, raised |-> FALSE, log |-> log]
    ELSE IF order[i] \in TestFiles
    THEN AnalyzeLoop(order, i + 1, comps, log)
    ELSE IF FileTable[order[i]].fail # "none"
    THEN [components |-> comps, raised |-> TRUE,
          log |-> log \o FileCalls(order[i])]
    ELSE AnalyzeLoop(order, i + 1,
                     (Stem(order[i]) :> ComponentTable[order[i]]) @@ comps,
                     log \o FileCalls(order[i]) \o << <<order[i], "store">> >>)

analyze(comps, order) == AnalyzeLoop(order, 1, comps, <<>>)

---------------------------------------------------------------------------
(* generate_mermaid *)

Values(comps) == {comps[k] : k \in DOMAIN comps}

\* the three style classes of the header
styles == {"high", "medium", "low"}

LayerNames == {"Client", "API", "Core"}

\* the variant whose Core layer also takes every name no marker matches
InLayer_core_by_default(layer, name) ==
    CASE layer = "Client" -> Contains(s_client, Lower(name))
      [] layer = "API" -> Contains(s_api, Lower(name))
      [] layer = "Core" ->
            \/ \E x \in {s_core, s_type, s_base} : Contains(x, Lower(name))
            \/ \A x \in {s_client, s_api} : ~Contains(x, Lower(name))

\* the membership test of each entry of `layers`
InLayer(layer, name) ==
    CASE layer = "Client" -> Contains(s_client, Lower(name))
      [] layer = "API" -> Contains(s_api, Lower(name))
      [] layer = "Core" -> \E x \in {s_core, s_type, s_base} : Contains(x, Lower(name))

\* the variant that follows the comment "Green for CC < 20"
StyleOf_low_below_20(complexity) ==
    IF complexity > 50 THEN "high"
    ELSE IF complexity >= 20 THEN "medium"
    ELSE "low"

StyleOf(complexity) ==
    IF complexity > 50 THEN "high"
    ELSE IF complexity > 20 THEN "medium"
    ELSE "low"

\* InLayer and NodeId tabulated over the names of the files, computed once
StemSet == {Stem(f) : f \in Files}

LayerMembers ==
    UNION {IF InLayer(p[1], p[2]) THEN {p} ELSE {} : p \in LayerNames \X StemSet}

ModuleSet == StemSet \cup UNION {_extract_dependencies(f) : f \in Files}

NodeIds == UNION {{<<n, NodeId(n)>>} : n \in ModuleSet}

NodeIdOf(n) == (CHOOSE p \in NodeIds : p[1] = n)[2]

\* layers[layer]
Layer(layer, comps) == {c \in Values(comps) : <<layer, c.name>> \in LayerMembers}

\* the subgraphs opened: the layers with at least one component
Subgraphs(comps) == {l \in LayerNames : Layer(l, comps) # {}}

\* the node lines: one per layer and component of that layer
Nodes(comps) ==
    UNION {{[layer |-> l, node_id |-> NodeIdOf(c.name), name |-> c.name,
             complexity |-> c.performance.complexity,
             style |-> StyleOf(c.performance.complexity)] : c \in Layer(l, comps)} :
              l \in LayerNames}

\* the variant without `if dep in self.components`
HasEdge_any_dependency(comps, name, dep) == dep \in comps[name].dependencies

\* whether the relationship loop emits `name --> dep`
HasEdge(comps, name, dep) ==
    dep \in comps[name].dependencies /\ dep \in DOMAIN comps

\* the edge lines
Edges(comps) ==
    UNION {{[from |-> name, to |-> dep,
             node_id |-> NodeIdOf(name), dep_id |-> NodeIdOf(dep)] :
                dep \in {d \in comps[name].dependencies : HasEdge(comps, name, d)}} :
              name \in DOMAIN comps}

\* the text returned, as the sets of its lines
Render(comps) ==
    [classDefs |-> styles, subgraphs |-> Subgraphs(comps),
     nodes |-> Nodes(comps), edges |-> Edges(comps)]

\* no text: the call raised
NoOutput == [classDefs |-> {}, subgraphs |-> {}, nodes |-> {}, edges |-> {}]

\* generate_mermaid on an analyzer whose map is comps: the map it leaves,
\* whether it ran analyze, whether that raised, and the text returned
generate_mermaid(comps, order) ==
    IF DOMAIN comps = {}
    THEN LET r == analyze(comps, order)
         IN  [components |-> r.components, triggered |-> TRUE, raised |-> r.raised,
              log |-> r.log,
              output |-> IF r.raised THEN NoOutput ELSE Render(r.components)]
    ELSE [components |-> comps, triggered |-> FALSE, raised |-> FALSE,
          log |-> <<>>, output |-> Render(comps)]

---------------------------------------------------------------------------
(* The `analyze` subcommand of viz-cli.py on a local directory *)

Formats == {"mermaid", "json"}

\* the command on a new analyzer: the analyzer's map at the end, the map the
\* result was built from, and whether a result was emitted
cli_analyze(format, order) ==
    IF format = "mermaid"
    THEN LET g == generate_mermaid(NoComponents, order)
         IN  [components |-> g.components, triggered |-> g.triggered,
              raised |-> g.raised, log |-> g.log, emitted |-> ~g.raised,
              output |-> g.output, source |-> g.components]
    ELSE [components |-> NoComponents, triggered |-> FALSE,
          raised |-> FALSE, log |-> <<>>, emitted |-> TRUE,
          output |-> NoOutput, source |-> NoComponents]


---------------------------------------------------------------------------
(* analyze_docker.  A build command is the sequence of its words, which    *)
(* single blanks separate; every word but "&&" consists of characters of   *)
(* [\w\-=<>\.] and of [\w\-], and "&&" starts with none of them.           *)

PackageWords == {"RUN", "pip", "install", "flask", "-r", "apt-get", "-y", "curl"}

\* re.findall(tool + r' install\s+(<class>+)', command)
RECURSIVE FindInstalled(_, _, _)
FindInstalled(tool, command, i) ==
    IF i + 2 > Len(command) THEN {}
    ELSE IF command[i] = tool /\ command[i + 1] = "install"
            /\ command[i + 2] \in PackageWords
    THEN {command[i + 2]} \cup FindInstalled(tool, command, i + 3)
    ELSE FindInstalled(tool, command, i + 1)

_extract_docker_deps(command) ==
    FindInstalled("pip", command, 1) \cup FindInstalled("apt-get", command, 1)

\* the entries image.history() may hold; keys: the keys the entry has
HistoryEntries == {
    [keys |-> {"CreatedBy", "Size"}, Size |-> 120,
     CreatedBy |-> <<"RUN", "pip", "install", "flask", "&&", "pip", "install", "-r">>],
    [keys |-> {"CreatedBy", "Size"}, Size |-> 45,
     CreatedBy |-> <<"RUN", "apt-get", "install", "-y", "curl">>],
    [keys |-> {"CreatedBy", "Size"}, Size |-> 0,
     CreatedBy |-> <<"RUN", "pip", "install", "&&">>],
    [keys |-> {"Size"}, Size |-> 7, CreatedBy |-> <<>>] }

\* what image.history() may do: raise, or return up to MaxLayers entries
Histories ==
    {[raises |-> TRUE, entries |-> <<>>]} \cup
    {[raises |-> FALSE, entries |-> e] :
        e \in UNION {[1..n -> HistoryEntries] : n \in 0..MaxLayers}}

\* the loop over image.history() from entry i: the layers appended, and
\* whether layer['CreatedBy'] raised
RECURSIVE LayersLoop(_, _, _)
LayersLoop(entries, i, layers) ==
    IF i > Len(entries) THEN [layers |-> layers, raised |-> FALSE]
    ELSE IF "CreatedBy" \notin entries[i].keys
    THEN [layers |-> layers, raised |-> TRUE]
    ELSE LayersLoop(entries, i + 1,
                    Append(layers,
                           [command |-> entries[i].CreatedBy,
                            size |-> entries[i].Size,
                            dependencies |-> _extract_docker_deps(entries[i].CreatedBy)]))

\* the try block of analyze_docker: the engine calls it makes in order, the
\* value of `image` when it ends (0: None), the layers appended and whether
\* it raised.  client: self.docker_client is not None; build_ok: images.build
\* returns; id: the id of the image a build gives
TryBlock(client, build_ok, hist, id) ==
    IF ~client
    THEN [calls |-> <<>>, image |-> 0, layers |-> <<>>, raised |-> TRUE]
    ELSE IF ~build_ok
    THEN [calls |-> << <<"build", 0>> >>, image |-> 0, layers |-> <<>>, raised |-> TRUE]
    ELSE IF hist.raises
    THEN [calls |-> << <<"build", id>>, <<"history", id>> >>,
          image |-> id, layers |-> <<>>, raised |-> TRUE]
    ELSE LET l == LayersLoop(hist.entries, 1, <<>>)
         IN  [calls |-> << <<"build", id>>, <<"history", id>> >>,
              image |-> id, layers |-> l.layers, raised |-> l.raised]

\* the variant that removes the image after the loop instead of in `finally`
analyze_docker_cleanup_after_loop(exists, client, build_ok, hist, id) ==
    IF ~exists
    THEN [calls |-> <<>>, image |-> 0, layers |-> <<>>, raised |-> FALSE]
    ELSE LET t == TryBlock(client, build_ok, hist, id)
         IN  [t EXCEPT !.calls = IF t.image # 0 /\ ~t.raised
                                 THEN Append(t.calls, <<"remove", t.image>>)
                                 ELSE t.calls,
                       !.layers = IF t.raised THEN <<>> ELSE t.layers]

\* analyze_docker: [] without a Dockerfile, else the try block and then the
\* `finally` with its `if image`; layers: the list returned
analyze_docker(exists, client, build_ok, hist, id) ==
    IF ~exists
    THEN [calls |-> <<>>, image |-> 0, layers |-> <<>>, raised |-> FALSE]
    ELSE LET t == TryBlock(client, build_ok, hist, id)
         IN  [t EXCEPT !.calls = IF t.image # 0
                                 THEN Append(t.calls, <<"remove", t.image>>)
                                 ELSE t.calls,
                       !.layers = IF t.raised THEN <<>> ELSE t.layers]

\* the images the engine holds after the calls
RECURSIVE EngineAfter(_, _, _)
EngineAfter(imgs, calls, i) ==
    IF i > Len(calls) THEN imgs
    ELSE IF calls[i][1] = "build" /\ calls[i][2] # 0
    THEN EngineAfter(imgs \cup {calls[i][2]}, calls, i + 1)
    ELSE IF calls[i][1] = "remove"
    THEN EngineAfter(imgs \ {calls[i][2]}, calls, i + 1)
    ELSE EngineAfter(imgs, calls, i + 1)


---------------------------------------------------------------------------
(* One analyzer over a directory that changes between the calls *)

\* the shape of lastOp.  ranBefore, completedBefore: analyzeRan and
\* analyzeCompleted when the operation began; source: the component map the
\* emitted result was built from
Op(op) ==
    [op |-> op, format |-> "none", raised |-> FALSE, triggered |-> FALSE,
     log |-> <<>>, ranBefore |-> FALSE, completedBefore |-> FALSE,
     emitted |-> FALSE, output |-> NoOutput, source |-> NoComponents]

NoDockerCall ==
    [called |-> FALSE, calls |-> <<>>, image |-> 0, layers |-> <<>>, raised |-> FALSE]

\* ArchitectureAnalyzer(local_path=...) on the directory dir
Constructed(dir, comps) ==
    /\ fs = dir
    /\ components = comps
    /\ analyzeRan = FALSE
    /\ analyzeCompleted = FALSE
    /\ genAnalyzeCalls = 0
    /\ lastOp = Op("none")
    /\ dockerfile = FALSE
    /\ images = {}
    /\ nextImage = 1
    /\ lastDocker = NoDockerCall

\* a source file appears in the directory
AddFile(f) ==
    /\ f \notin fs
    /\ Cardinality(fs) < MaxPresent
    /\ fs' = fs \cup {f}
    /\ lastOp' = Op("none")
    /\ UNCHANGED <<components, analyzeRan, analyzeCompleted, genAnalyzeCalls>>
    /\ UNCHANGED dockerVars

\* a source file is deleted from the directory
RemoveFile(f) ==
    /\ f \in fs
    /\ fs' = fs \ {f}
    /\ lastOp' = Op("none")
    /\ UNCHANGED <<components, analyzeRan, analyzeCompleted, genAnalyzeCalls>>
    /\ UNCHANGED dockerVars

\* a call that does not walk the directory: one order stands for all
AnyOrder(S) == CHOOSE o \in Orders(S) : TRUE

\* analyzer.analyze(), the directory walked in this order
Analyze(order) ==
    /\ \E r \in {analyze(components, order)} :
           /\ components' = r.components
           /\ analyzeRan' = TRUE
           /\ analyzeCompleted' = (analyzeCompleted \/ ~r.raised)
           /\ lastOp' = [Op("analyze") EXCEPT !.raised = r.raised, !.log = r.log,
                            !.ranBefore = analyzeRan,
                            !.completedBefore = analyzeCompleted]
    /\ UNCHANGED <<fs, genAnalyzeCalls>>
    /\ UNCHANGED dockerVars

\* analyzer.generate_mermaid(); order: the order of the walk, should it
\* run analyze
GenerateMermaid(order) ==
    /\ DOMAIN components # {} => order = AnyOrder(fs)
    /\ \E g \in {generate_mermaid(components, order)} :
           /\ g.triggered => genAnalyzeCalls < MaxGenCalls
           /\ components' = g.components
           /\ analyzeRan' = (analyzeRan \/ g.triggered)
           /\ analyzeCompleted' = (analyzeCompleted \/ (g.triggered /\ ~g.raised))
           /\ genAnalyzeCalls' = genAnalyzeCalls + (IF g.triggered THEN 1 ELSE 0)
           /\ lastOp' = [Op("generate") EXCEPT !.raised = g.raised, !.log = g.log,
                            !.triggered = g.triggered,
                            !.ranBefore = analyzeRan,
                            !.completedBefore = analyzeCompleted,
                            !.emitted = ~g.raised, !.output = g.output,
                            !.source = g.components]
    /\ UNCHANGED fs
    /\ UNCHANGED dockerVars

\* `viz-cli.py analyze <dir> --format <format>`: a new analyzer, then the
\* branch of the format and the echo of the result
CliAnalyze(format, order) ==
    /\ format = "json" => order = AnyOrder(fs)
    /\ \E r \in {cli_analyze(format, order)} :
           /\ components' = r.components
           /\ analyzeRan' = r.triggered
           /\ analyzeCompleted' = (r.triggered /\ ~r.raised)
           /\ genAnalyzeCalls' = IF r.triggered THEN 1 ELSE 0
           /\ lastOp' = [Op("cli") EXCEPT !.format = format, !.raised = r.raised,
                            !.log = r.log, !.triggered = r.triggered,
                            !.emitted = r.emitted, !.output = r.output,
                            !.source = r.source]
    /\ UNCHANGED fs
    /\ UNCHANGED dockerVars

Next ==
    \/ \E f \in Files : AddFile(f)
    \/ \E f \in Files : RemoveFile(f)
    \/ \E order \in Orders(fs) : Analyze(order)
    \/ \E order \in Orders(fs) : GenerateMermaid(order)
    \/ \E format \in Formats : \E order \in Orders(fs) : CliAnalyze(format, order)

Init == Constructed({}, NoComponents) /\ docker_client = TRUE

Spec == Init /\ [][Next]_vars

---------------------------------------------------------------------------
(* One analyzer over a directory that stays as it is *)

Directories == {S \in SUBSET Files : Cardinality(S) <= MaxPresent}

RunInit ==
    \E dir \in Directories : Constructed(dir, NoComponents) /\ docker_client = TRUE

RunNext ==
    \/ \E order \in Orders(fs) : Analyze(order)
    \/ \E order \in Orders(fs) : GenerateMermaid(order)
    \/ \E format \in Formats : \E order \in Orders(fs) : CliAnalyze(format, order)

RunSpec == RunInit /\ [][RunNext]_vars

---------------------------------------------------------------------------
(* generate_mermaid on every component map analyze can build from the      *)
(* files that analyze records, the directory emptied since                 *)

RecordedFiles == {f \in Files \ TestFiles : FileTable[f].fail = "none"}

HeldMaps ==
    UNION {{analyze(NoComponents, o).components : o \in Orders(S)} :
              S \in SUBSET RecordedFiles}

RenderInit ==
    \E comps \in HeldMaps : Constructed({}, comps) /\ docker_client = TRUE

RenderNext ==
    \/ \E order \in Orders(fs) : Analyze(order)
    \/ \E order \in Orders(fs) : GenerateMermaid(order)

RenderSpec == RenderInit /\ [][RenderNext]_vars

---------------------------------------------------------------------------
(* analyze_docker against a container engine *)

\* the Dockerfile is written or deleted
ToggleDockerfile ==
    /\ dockerfile' = ~dockerfile
    /\ lastDocker' = NoDockerCall
    /\ UNCHANGED <<docker_client, images, nextImage>>
    /\ UNCHANGED analyzerVars

\* analyzer.analyze_docker()
AnalyzeDocker(build_ok, hist) ==
    /\ nextImage <= MaxImages
    /\ \E r \in {analyze_docker(dockerfile, docker_client, build_ok, hist, nextImage)} :
           /\ images' = EngineAfter(images, r.calls, 1)
           /\ nextImage' = IF r.image # 0 THEN nextImage + 1 ELSE nextImage
           /\ lastDocker' = [called |-> TRUE, calls |-> r.calls, image |-> r.image,
                             layers |-> r.layers, raised |-> r.raised]
    /\ UNCHANGED <<docker_client, dockerfile>>
    /\ UNCHANGED analyzerVars

DockerNext ==
    \/ ToggleDockerfile
    \/ \E build_ok \in BOOLEAN, hist \in Histories : AnalyzeDocker(build_ok, hist)

DockerInit == Constructed({}, NoComponents) /\ docker_client \in BOOLEAN

DockerSpec == DockerInit /\ [][DockerNext]_vars


---------------------------------------------------------------------------
(* Properties *)

\* the stems of the files of S that analyze does not skip
NonTestStems(S) == {Stem(f) : f \in {g \in S : ~Contains(s_test, Lower(Stem(g)))}}

\* no marker of the three layers occurs in the lower-cased name
NoMarker(name) ==
    \A x \in {s_client, s_api, s_core, s_type, s_base} : ~Contains(x, Lower(name))

\* the latest operation ran the loop of analyze
RanAnalyze == lastOp.op = "analyze" \/ lastOp.triggered

\* C1: whatever the format, the result the `analyze` subcommand emits is
\* built from a component map that holds a record for every file of the
\* directory whose stem does not contain "test".
C1_CliResultFromFullAnalysis ==
    (lastOp.op = "cli" /\ lastOp.emitted)
        => DOMAIN lastOp.source = NonTestStems(fs)

C3_EdgesOnlyBetweenKeys ==
    /\ \A e \in lastOp.output.edges :
          /\ e.from \in DOMAIN lastOp.source
          /\ e.to \in lastOp.source[e.from].dependencies
          /\ e.to \in DOMAIN lastOp.source
    /\ \A k \in DOMAIN lastOp.source :
          \A d \in lastOp.source[k].dependencies \ DOMAIN lastOp.source :
              \A e \in lastOp.output.edges : e.to # d /\ e.dep_id # NodeId(d)

\* a diagram of api-client, which imports Core (a key) and os (no key): the
\* edge to Core is there
C3_Witness ==
    /\ lastOp.op = "generate" /\ lastOp.emitted
    /\ m_api_client \in DOMAIN lastOp.source
    /\ m_os \in lastOp.source[m_api_client].dependencies
    /\ m_os \notin DOMAIN lastOp.source
    /\ \E e \in lastOp.output.edges : e.from = m_api_client /\ e.to = m_Core

\* C4: a component whose lower-cased name holds none of client, api, core,
\* type, base is declared as a node in no subgraph, whatever its
\* dependencies are and whoever depends on it.
C4_UnmatchedNeverANode ==
    \A k \in DOMAIN lastOp.source :
        NoMarker(k) =>
            \A n \in lastOp.output.nodes : n.name # k /\ n.node_id # NodeId(k)

\* a diagram in which helpers has an edge to a key and an edge from a key,
\* and no node
C4_Witness ==
    /\ lastOp.op = "generate" /\ lastOp.emitted
    /\ m_helpers \in DOMAIN lastOp.source
    /\ NoMarker(m_helpers)
    /\ \E e \in lastOp.output.edges : e.from = m_helpers /\ e.to = m_Core
    /\ \E e \in lastOp.output.edges : e.from = m_api_client /\ e.to = m_helpers
    /\ lastOp.output.nodes # {}

\* C5: analyze run again over the unchanged directory, both runs returning,
\* leaves the component map the first run left, whatever order the files
\* are visited in.
C5_RerunIdentical ==
    [][(/\ lastOp.op = "analyze" /\ ~lastOp.raised
        /\ lastOp'.op = "analyze" /\ ~lastOp'.raised)
          => components' = components]_vars

\* C6: after an analyze call that returns, the keys of the map are exactly
\* the stems of the non-test files now present, and every record is that of
\* a file now present.
C6_RebuiltFromScratch ==
    (lastOp.op = "analyze" /\ ~lastOp.raised)
        => /\ DOMAIN components = NonTestStems(fs)
           /\ \A k \in DOMAIN components : components[k].path \in fs

\* C7: generate_mermaid runs analyze exactly when analyze has not yet run
\* on the analyzer: at most once in all, and never once an analyze call has
\* returned.
C7_TriggersOnlyBeforeFirstAnalyze ==
    /\ genAnalyzeCalls <= 1
    /\ lastOp.op = "generate" =>
          /\ lastOp.triggered <=> ~lastOp.ranBefore
          /\ lastOp.triggered => ~lastOp.completedBefore

\* C8: analyze raises exactly when a file it does not skip fails in a step;
\* the failing call is then the last call made and no call is made twice,
\* the failing file has no record, and on an analyzer that held no record
\* the records are those of the files stored before the failure.
C8_FailureStopsRun ==
    RanAnalyze =>
        /\ lastOp.raised <=>
              \E f \in fs : ~Contains(s_test, Lower(Stem(f))) /\ FileTable[f].fail # "none"
        /\ lastOp.raised =>
              LET n == Len(lastOp.log)
                  bad == lastOp.log[n][1]
              IN  /\ lastOp.log[n] = <<bad, FileTable[bad].fail>>
                  /\ \A i \in 1..(n - 1) :
                        /\ lastOp.log[i][1] # bad => FileTable[lastOp.log[i][1]].fail = "none"
                        /\ lastOp.log[i][1] = bad => lastOp.log[i][2] # "store"
                  /\ \A i, j \in 1..n : i # j => lastOp.log[i] # lastOp.log[j]
                  /\ \A k \in DOMAIN components : components[k].path # bad
        /\ (lastOp.op # "analyze" \/ ~lastOp.ranBefore) =>
              {components[k].path : k \in DOMAIN components}
                 \subseteq {lastOp.log[i][1] : i \in {j \in DOMAIN lastOp.log :
                                                          lastOp.log[j][2] = "store"}}

\* a run that raised with a file of the directory left unvisited that
\* analyze would have recorded
C8_Witness ==
    /\ RanAnalyze /\ lastOp.raised
    /\ \E g \in fs :
          /\ g \notin TestFiles /\ FileTable[g].fail = "none"
          /\ \A i \in DOMAIN lastOp.log : lastOp.log[i][1] # g
          /\ Stem(g) \notin DOMAIN components

\* C9: an analyze_docker call that built an image removes it once, as its
\* last engine call, whether the call returns or raises, and the engine no
\* longer holds it; a call that built none removes none.
C9_BuiltImageRemovedOnce ==
    lastDocker.called =>
        LET calls == lastDocker.calls
            built == {calls[i][2] : i \in {j \in DOMAIN calls :
                                             calls[j][1] = "build" /\ calls[j][2] # 0}}
            removes == {i \in DOMAIN calls : calls[i][1] = "remove"}
        IN  /\ built = {} => removes = {}
            /\ \A id \in built :
                  /\ Cardinality(removes) = 1
                  /\ calls[Len(calls)] = <<"remove", id>>
                  /\ id \notin images
            /\ images = {}

\* a call that built an image, raised in the loop over its history, and
\* removed the image
C9_Witness ==
    /\ lastDocker.called /\ lastDocker.raised
    /\ lastDocker.image # 0
    /\ \E i \in DOMAIN lastDocker.calls : lastDocker.calls[i] = <<"history", lastDocker.image>>
    /\ lastDocker.calls[Len(lastDocker.calls)] = <<"remove", lastDocker.image>>

\* C10: the three layers are pairwise disjoint: no component is declared
\* as a node in two subgraphs of one diagram.
C10_LayersDisjoint ==
    \A n1, n2 \in lastOp.output.nodes : n1.name = n2.name => n1.layer = n2.layer

=============================================================================
